---- MODULE Spec2Model ----
(***************************************************************************)
(* The Litestream daemon of restinpieces-litestream: the lifecycle of one  *)
(* Litestream instance (Start, its supervisor goroutine, Stop) in the      *)
(* three shapes the repository gives it:                                   *)
(*   "replicas"  several replicas on one DB       (part_006, 734-807)      *)
(*   "single"    one replica on one DB            (part_007, 85-156)       *)
(*   "store"     a Store and directory monitors   (litestream.go, 142-211) *)
(* A "task" is a replica ("replicas", "single") or a directory monitor     *)
(* ("store"); the "handle" is the DB or the Store. Calls into the engine   *)
(* (Open, Close, replica Start/Stop, NewDirectoryMonitor, monitor Close)   *)
(* take two steps, the call and its return, and may fail where the Go      *)
(* signature returns an error.                                             *)
(* The constructors are modelled too: NewLitestream (part_006, 584-722 and *)
(* 867-944) and New (litestream.go, 265-296), each a call whose inputs are *)
(* drawn from bounded sets.                                                *)
(***************************************************************************)
EXTENDS Integers, Sequences, FiniteSets, TLC

\* Largest number of replicas / watchable directories of a configuration.
MaxTasks == 2
\* Number of Stop calls made on the instance.
MaxStops == 2

Variants == {"replicas", "single", "store"}
Tasks == 1..MaxTasks
Stoppers == 1..MaxStops
\* Start is called once on an instance (the daemon contract of the host).
Starts == {1}
\* The Start calls of a host that calls Start again on the same instance.
AllStarts == {1, 2}

VARIABLES
    variant,            \* which Litestream type this instance is
    N,                  \* len(db.Replicas) / len(l.watchables)
    handle,             \* state of the DB / Store
    openOK,             \* Open has returned nil
    openCalls,          \* number of Open calls
    closeCalls,         \* number of Close calls on the DB / Store
    tstate,             \* per task: idle, starting, running, startfailed, stopping, stopped
    startCalls,         \* per task: number of start calls
    started,            \* tasks whose start call returned nil
    stopCalls,          \* per task: number of stop calls
    logged,             \* teardown errors that were only logged
    ctxCancelled,       \* l.ctx is done
    cancelledBy,        \* who called l.cancel(): "fatal", "stop"; "stopNoop" is
                        \* a Stop that found the context cancelled already
    shutdownDone,       \* l.shutdownDone is closed
    doneCloses,         \* number of close(l.shutdownDone)
    directoryMonitors,  \* l.directoryMonitors
    callerPc,           \* per Start call: idle, opening, recv, returned
    startRet,           \* per Start call: the value Start returned
    chan,               \* per Start call: the buffer of startupComplete
    sends,              \* per Start call: number of sends on startupComplete
    svPc,               \* per Start call: position of the supervisor goroutine
    idx,                \* per Start call: index of the start loop
    tdIdx,              \* per Start call: index of the monitor-closing loop
    startupErr,         \* per Start call: the error the supervisor reports
    defers,             \* per Start call: the deferred calls, registered or (at exit) left to run
    todo,               \* per Start call: statements left before the goroutine blocks or returns
    stopPc,             \* per Stop call: idle, select, returned
    stopRet,            \* per Stop call: the value Stop returned
    deadline,           \* per Stop call: the caller's ctx is done
    nl,                 \* the call of NewLitestream(dbPath, cfg, logger)
    nw                  \* the call of New(app)

engineVars ==
    <<handle, openOK, openCalls, closeCalls, tstate, startCalls, started, stopCalls, logged>>
lifeVars == <<ctxCancelled, cancelledBy, shutdownDone, doneCloses, directoryMonitors>>
callVars == <<callerPc, startRet, chan, sends>>
svVars == <<svPc, idx, tdIdx, startupErr, defers, todo>>
stopVars == <<stopPc, stopRet, deadline>>
ctorVars == <<nl, nw>>
vars == <<ctorVars, variant, N, engineVars, lifeVars, callVars, svVars, stopVars>>

----
\* Error values. An error made by fmt.Errorf("...%w", err) wraps err.
NotReturned == [kind |-> "none", task |-> 0, wrapped |-> FALSE]
NoErr == [kind |-> "nil", task |-> 0, wrapped |-> FALSE]
OpenErr == [kind |-> "open", task |-> 0, wrapped |-> FALSE]
TaskErr(i) == [kind |-> "task", task |-> i, wrapped |-> FALSE]
Wrap(e) == [e EXCEPT !.wrapped = TRUE]
\* errors.Unwrap down to the cause
Cause(e) == [e EXCEPT !.wrapped = FALSE]

\* make(chan error, 1)
ChanCap == 1

\* Where Start opens the handle: in the calling goroutine or in the supervisor.
OpensInCaller(v) == v = "replicas"

\* The error Start returns when its own Open call fails.
CallerOpenError(v) == Wrap(OpenErr)

\* Faulty variants: nil, or the error of another task, is reported.
ReportedNilForTaskError(v, i) == NoErr
ReportedOtherTaskError(v, i) == IF i > 1 THEN TaskErr(i - 1) ELSE TaskErr(i + 1)
\* The error the supervisor reports when the start of task i fails.
TaskStartError(v, i) == IF v = "replicas" THEN Wrap(TaskErr(i)) ELSE TaskErr(i)

\* Faulty variant: the tasks are visited last to first.
ReversedOrder(n) == [i \in 1..n |-> n + 1 - i]
\* The order in which the start loop visits the tasks: db.Replicas holds the
\* replicas in the order of cfg.Replicas, l.watchables in the order of cfg.DBs.
StartOrder(n) == [i \in 1..n |-> i]

\* The start loop has run through all n entries.
LoopDone(i, n) == i > n

\* Faulty variant: the loop goes on after a failed start.
ContinueOnStartError(v) == FALSE
\* A failed task start ends the loop (break / return).
BreakOnStartError(v) == TRUE

\* Faulty variant: the Close is not deferred at the start of the goroutine.
DefersCloseOnlyOnSuccess(v) == <<"closeDone">>
\* Faulty variant: close(l.shutdownDone) is deferred after the close of the
\* source, so it runs before it.
DefersDoneRegisteredLast(v) ==
    CASE v = "replicas" -> <<"dbClose", "closeDone">>
      [] v = "single" -> <<"closeDone">>
      [] v = "store" -> <<"closeMonitorsAndStore", "closeDone">>
\* Faulty variant: nothing closes l.shutdownDone.
DefersWithoutDone(v) ==
    CASE v = "replicas" -> <<"dbClose">>
      [] v = "single" -> <<>>
      [] v = "store" -> <<"closeMonitorsAndStore">>
\* Deferred calls registered when the goroutine starts, in order of registration.
InitialDefers(v) ==
    CASE v = "replicas" -> <<"closeDone", "dbClose">>
      [] v = "single" -> <<"closeDone">>
      [] v = "store" -> <<"closeDone", "closeMonitorsAndStore">>

\* Faulty variant: a Close is deferred after Open in every version.
DefersAfterOpenAlways(v) == <<"dbClose">>
\* Deferred calls registered after a successful Open in the goroutine.
DefersAfterOpen(v) == IF v = "single" THEN <<"dbClose">> ELSE <<>>

\* Deferred calls registered after a successful task start.
DefersAfterTaskStart(v) == IF v = "single" THEN <<"replicaStop">> ELSE <<>>

\* Faulty variant: the monitor is not appended.
MonitorNotRecorded(v, ms, i) == ms
\* The successful monitor is appended to l.directoryMonitors.
MonitorsAfterStart(v, ms, i) == IF v = "store" THEN Append(ms, i) ELSE ms

\* Faulty variant: the store is closed without closing the monitors.
StoreClosedAtOnce(ms) == <<>>
\* The monitors the deferred function closes before it closes the store:
\* for _, m := range l.directoryMonitors.
ClosedBeforeStore(ms) == ms

\* Faulty variant: a failed Open is not reported.
NoReportOnOpenError(v) == <<>>
\* Statements of the goroutine after a failed Open, before its return.
OnOpenError(v) == <<"send">>

\* Faulty variant: the goroutine goes on to the start loop after a failed Open.
ContinueAfterOpenError(v) == "loop"
\* Where the goroutine goes after a failed Open: the failure path, which
\* runs those statements and returns.
AfterOpenError(v) == "fail"

\* Faulty variant: the failure is reported and the context is left alone.
ReportWithoutCancel(v) == <<"send">>
\* Statements of the goroutine after a failed task start, before its return.
OnTaskStartError(v) ==
    CASE v = "replicas" -> <<"send", "cancel">>
      [] v = "single" -> <<"send">>
      [] v = "store" -> <<"cancel", "send">>

\* Statements of the goroutine after all tasks started, before <-l.ctx.Done().
OnAllStarted(v) == IF v = "single" THEN <<"send", "send">> ELSE <<"send">>

\* Faulty variant: a failed stop of the replica ends the teardown.
AbortAfterStopError(v) == "done"
\* Where the goroutine goes after a stop that failed: the error is logged
\* and the next deferred call runs.
AfterStopError(v) == "defer"

\* Faulty variant: the goroutine does not wait for the lifecycle context.
NoWait(cancelled) == TRUE
\* <-l.ctx.Done() lets the goroutine go on once the context is cancelled.
WaitOver(cancelled) == cancelled

\* Faulty variant: Stop closes the source handle itself.
StopAlsoCloses(v) == <<"cancel", "close">>
\* Faulty variant: Stop waits without cancelling the context.
StopWithoutCancel(v) == <<>>
\* Faulty variant: Stop opens the source handle itself.
StopAlsoOpens(v) == <<"cancel", "open">>
\* Faulty variant: Stop fires the shutdown-complete signal itself.
StopAlsoSignals(v) == <<"cancel", "closeDone">>
\* Statements of Stop before its select.
StopStatements(v) == <<"cancel">>

\* How many times statement x stands in the statements ss.
Count(ss, x) == Cardinality({k \in DOMAIN ss : ss[k] = x})

\* Faulty variant: the select has a default case that returns nil.
SelectDefault(closed) == TRUE
\* case <-l.shutdownDone is ready once the channel is closed.
SelectDone(closed) == closed

\* Faulty variant: Stop hands a teardown error on to its caller.
StopReturnsTeardownError(errs) == IF errs = {} THEN "nil" ELSE "teardown"
\* What Stop returns from the shutdownDone case, whatever teardown logged.
StopDoneResult(errs) == "nil"

\* db.Close() stops the replicas of the DB ("db.Close() called by defer will
\* handle stopping replicas"); the other two shapes stop their tasks themselves.
CloseStopsTasks(v) == v = "replicas"

RECURSIVE Reverse(_)
Reverse(q) == IF q = <<>> THEN <<>> ELSE Append(Reverse(Tail(q)), Head(q))

\* Faulty variant: the deferred calls run first registered, first run.
RunInRegistrationOrder(ds) == ds
\* The order in which the deferred calls ds (in order of registration) run
\* when the goroutine's function returns: last registered, first run.
RunOrder(ds) == Reverse(ds)

----
TypeOK ==
    /\ variant \in Variants
    /\ N \in 0..MaxTasks
    /\ handle \in {"new", "opening", "open", "openfailed", "closing", "closed"}
    /\ openOK \in BOOLEAN
    /\ openCalls \in Nat /\ closeCalls \in Nat
    /\ tstate \in [Tasks -> {"idle", "starting", "running", "startfailed", "stopping", "stopped"}]
    /\ startCalls \in [Tasks -> Nat]
    /\ started \subseteq Tasks
    /\ stopCalls \in [Tasks -> Nat]
    /\ logged \subseteq {"close", "stop"}
    /\ ctxCancelled \in BOOLEAN
    /\ cancelledBy \subseteq {"fatal", "stop", "stopNoop"}
    /\ shutdownDone \in BOOLEAN
    /\ doneCloses \in Nat
    /\ directoryMonitors \in Seq(Tasks)
    /\ callerPc \in [AllStarts -> {"idle", "opening", "recv", "returned"}]
    /\ svPc \in [AllStarts -> {"none", "open", "opening", "loop", "starting", "fail", "report",
                            "wait", "defer", "stopping", "monitors", "monstopping",
                            "closing", "done"}]
    /\ stopPc \in [Stoppers -> {"idle", "select", "returned"}]
    /\ stopRet \in [Stoppers -> {"none", "nil", "deadline"}]
    /\ deadline \in [Stoppers -> BOOLEAN]

\* The state NewLitestream / New returns: nothing opened, nothing started, a
\* fresh context and an open shutdownDone channel.
\* The constructors are not looked at by the specifications of the
\* lifecycle, which begin with a constructed instance.
Elsewhere == [pc |-> "elsewhere"]

\* The fields of an instance that a constructor has just made.
Fresh ==
    /\ handle = "new"
    /\ openOK = FALSE
    /\ openCalls = 0
    /\ closeCalls = 0
    /\ tstate = [i \in Tasks |-> "idle"]
    /\ startCalls = [i \in Tasks |-> 0]
    /\ started = {}
    /\ stopCalls = [i \in Tasks |-> 0]
    /\ logged = {}
    /\ ctxCancelled = FALSE
    /\ cancelledBy = {}
    /\ shutdownDone = FALSE
    /\ doneCloses = 0
    /\ directoryMonitors = <<>>
    /\ callerPc = [s \in AllStarts |-> "idle"]
    /\ startRet = [s \in AllStarts |-> NotReturned]
    /\ chan = [s \in AllStarts |-> <<>>]
    /\ sends = [s \in AllStarts |-> 0]
    /\ svPc = [s \in AllStarts |-> "none"]
    /\ idx = [s \in AllStarts |-> 1]
    /\ tdIdx = [s \in AllStarts |-> 1]
    /\ startupErr = [s \in AllStarts |-> NoErr]
    /\ defers = [s \in AllStarts |-> <<>>]
    /\ todo = [s \in AllStarts |-> <<>>]
    /\ stopPc = [c \in Stoppers |-> "idle"]
    /\ stopRet = [c \in Stoppers |-> "none"]
    /\ deadline = [c \in Stoppers |-> FALSE]

Init ==
    /\ variant \in Variants
    /\ N \in 0..MaxTasks
    /\ variant = "single" => N = 1
    /\ variant = "replicas" => N >= 1
    /\ Fresh
    /\ nl = Elsewhere
    /\ nw = Elsewhere

----
\* Start: the calling goroutine ------------------------------------------

\* go func() {...}(): the supervisor goroutine begins at position pc.
Spawn(s, pc) ==
    /\ svPc' = [svPc EXCEPT ![s] = pc]
    /\ defers' = [defers EXCEPT ![s] = InitialDefers(variant)]
    /\ callerPc' = [callerPc EXCEPT ![s] = "recv"]

\* Start() is entered. "replicas" calls l.db.Open() itself; the other two
\* make the channel and launch the goroutine at once.
StartCall(s) ==
    /\ callerPc[s] = "idle"
    /\ IF OpensInCaller(variant)
       THEN /\ handle' = "opening"
            /\ openCalls' = openCalls + 1
            /\ callerPc' = [callerPc EXCEPT ![s] = "opening"]
            /\ UNCHANGED <<svPc, defers>>
       ELSE /\ Spawn(s, "open")
            /\ UNCHANGED <<handle, openCalls>>
    /\ UNCHANGED <<ctorVars, variant, N, openOK, closeCalls, tstate, startCalls, started, stopCalls, logged,
                   lifeVars, startRet, chan, sends, idx, tdIdx, startupErr, todo, stopVars>>

\* l.db.Open() returns to Start ("replicas"): an error is returned wrapped and
\* no goroutine is launched; otherwise the goroutine is launched.
CallerOpenReturn(s) ==
    /\ callerPc[s] = "opening"
    /\ \E ok \in BOOLEAN :
        IF ok
        THEN /\ handle' = "open"
             /\ openOK' = TRUE
             /\ Spawn(s, "loop")
             /\ UNCHANGED startRet
        ELSE /\ handle' = "openfailed"
             /\ startRet' = [startRet EXCEPT ![s] = CallerOpenError(variant)]
             /\ callerPc' = [callerPc EXCEPT ![s] = "returned"]
             /\ UNCHANGED <<openOK, svPc, defers>>
    /\ UNCHANGED <<ctorVars, variant, N, openCalls, closeCalls, tstate, startCalls, started, stopCalls, logged,
                   lifeVars, chan, sends, idx, tdIdx, startupErr, todo, stopVars>>

\* return <-startupComplete
StartReceive(s) ==
    /\ callerPc[s] = "recv"
    /\ chan[s] # <<>>
    /\ startRet' = [startRet EXCEPT ![s] = Head(chan[s])]
    /\ chan' = [chan EXCEPT ![s] = Tail(chan[s])]
    /\ callerPc' = [callerPc EXCEPT ![s] = "returned"]
    /\ UNCHANGED <<ctorVars, variant, N, engineVars, lifeVars, sends, svVars, stopVars>>

\* Start: the supervisor goroutine -----------------------------------------

\* l.db.Open() / l.store.Open(l.ctx) is called in the goroutine.
SvOpenCall(s) ==
    /\ svPc[s] = "open"
    /\ handle' = "opening"
    /\ openCalls' = openCalls + 1
    /\ svPc' = [svPc EXCEPT ![s] = "opening"]
    /\ UNCHANGED <<ctorVars, variant, N, openOK, closeCalls, tstate, startCalls, started, stopCalls, logged,
                   lifeVars, callVars, idx, tdIdx, startupErr, defers, todo, stopVars>>

\* Open returns in the goroutine: on an error it is reported and the goroutine
\* returns; otherwise the start loop begins.
SvOpenReturn(s) ==
    /\ svPc[s] = "opening"
    /\ \E ok \in BOOLEAN :
        IF ok
        THEN /\ handle' = "open"
             /\ openOK' = TRUE
             /\ defers' = [defers EXCEPT ![s] = @ \o DefersAfterOpen(variant)]
             /\ svPc' = [svPc EXCEPT ![s] = "loop"]
             /\ UNCHANGED <<startupErr, todo>>
        ELSE /\ handle' = "openfailed"
             /\ startupErr' = [startupErr EXCEPT ![s] = OpenErr]
             /\ todo' = [todo EXCEPT ![s] = OnOpenError(variant)]
             /\ svPc' = [svPc EXCEPT ![s] = AfterOpenError(variant)]
             /\ UNCHANGED <<openOK, defers>>
    /\ UNCHANGED <<ctorVars, variant, N, openCalls, closeCalls, tstate, startCalls, started, stopCalls, logged,
                   lifeVars, callVars, idx, tdIdx, stopVars>>

\* The task the loop is at.
Current(s) == StartOrder(N)[idx[s]]

\* replica.Start(l.ctx) / setup.NewDirectoryMonitor(l.ctx, ...) is called for
\* the next entry of the loop.
SvTaskStartCall(s) ==
    /\ svPc[s] = "loop"
    /\ ~LoopDone(idx[s], N)
    /\ tstate' = [tstate EXCEPT ![Current(s)] = "starting"]
    /\ startCalls' = [startCalls EXCEPT ![Current(s)] = @ + 1]
    /\ svPc' = [svPc EXCEPT ![s] = "starting"]
    /\ UNCHANGED <<ctorVars, variant, N, handle, openOK, openCalls, closeCalls, started, stopCalls,
                   logged, lifeVars, callVars, idx, tdIdx, startupErr, defers, todo, stopVars>>

\* The start call returns. A failure is recorded and ends the loop; a success
\* registers the task's teardown and moves to the next entry.
SvTaskStartReturn(s) ==
    /\ svPc[s] = "starting"
    /\ \E ok \in BOOLEAN :
        IF ok
        THEN /\ tstate' = [tstate EXCEPT ![Current(s)] = "running"]
             /\ started' = started \cup {Current(s)}
             /\ defers' = [defers EXCEPT ![s] = @ \o DefersAfterTaskStart(variant)]
             /\ directoryMonitors' = MonitorsAfterStart(variant, directoryMonitors, Current(s))
             /\ idx' = [idx EXCEPT ![s] = @ + 1]
             /\ svPc' = [svPc EXCEPT ![s] = "loop"]
             /\ UNCHANGED <<startupErr, todo>>
        ELSE /\ tstate' = [tstate EXCEPT ![Current(s)] = "startfailed"]
             /\ startupErr' = [startupErr EXCEPT ![s] = TaskStartError(variant, Current(s))]
             /\ IF BreakOnStartError(variant)
                THEN /\ todo' = [todo EXCEPT ![s] = OnTaskStartError(variant)]
                     /\ svPc' = [svPc EXCEPT ![s] = "fail"]
                     /\ UNCHANGED idx
                ELSE /\ idx' = [idx EXCEPT ![s] = @ + 1]
                     /\ svPc' = [svPc EXCEPT ![s] = "loop"]
                     /\ UNCHANGED todo
             /\ UNCHANGED <<started, defers, directoryMonitors>>
    /\ UNCHANGED <<ctorVars, variant, N, handle, openOK, openCalls, closeCalls, startCalls, stopCalls,
                   logged, ctxCancelled, cancelledBy, shutdownDone, doneCloses, callVars,
                   tdIdx, stopVars>>

\* The loop is over: with an error recorded the failure is reported (the
\* "if startupErr != nil" after the loop), otherwise success is.
SvLoopExit(s) ==
    /\ svPc[s] = "loop"
    /\ LoopDone(idx[s], N)
    /\ IF startupErr[s] # NoErr
       THEN /\ todo' = [todo EXCEPT ![s] = OnTaskStartError(variant)]
            /\ svPc' = [svPc EXCEPT ![s] = "fail"]
       ELSE /\ todo' = [todo EXCEPT ![s] = OnAllStarted(variant)]
            /\ svPc' = [svPc EXCEPT ![s] = "report"]
    /\ UNCHANGED <<ctorVars, variant, N, engineVars, lifeVars, callVars, idx, tdIdx, startupErr,
                   defers, stopVars>>

\* startupComplete <- err: blocks while the buffer is full.
SvSend(s) ==
    /\ svPc[s] \in {"fail", "report"}
    /\ todo[s] # <<>> /\ Head(todo[s]) = "send"
    /\ Len(chan[s]) < ChanCap
    /\ chan' = [chan EXCEPT ![s] = Append(@, startupErr[s])]
    /\ sends' = [sends EXCEPT ![s] = @ + 1]
    /\ todo' = [todo EXCEPT ![s] = Tail(@)]
    /\ UNCHANGED <<ctorVars, variant, N, engineVars, lifeVars, callerPc, startRet, svPc, idx, tdIdx,
                   startupErr, defers, stopVars>>

\* l.cancel() on the failure path.
SvCancel(s) ==
    /\ svPc[s] \in {"fail", "report"}
    /\ todo[s] # <<>> /\ Head(todo[s]) = "cancel"
    /\ ctxCancelled' = TRUE
    /\ cancelledBy' = cancelledBy \cup {"fatal"}
    /\ todo' = [todo EXCEPT ![s] = Tail(@)]
    /\ UNCHANGED <<ctorVars, variant, N, engineVars, shutdownDone, doneCloses, directoryMonitors,
                   callVars, svPc, idx, tdIdx, startupErr, defers, stopVars>>

\* return on the failure path: the deferred calls run.
SvFailReturn(s) ==
    /\ svPc[s] = "fail"
    /\ todo[s] = <<>>
    /\ svPc' = [svPc EXCEPT ![s] = "defer"]
    /\ defers' = [defers EXCEPT ![s] = RunOrder(@)]
    /\ UNCHANGED <<ctorVars, variant, N, engineVars, lifeVars, callVars, idx, tdIdx, startupErr,
                   todo, stopVars>>

\* Success was reported: the goroutine blocks in <-l.ctx.Done().
SvReported(s) ==
    /\ svPc[s] = "report"
    /\ todo[s] = <<>>
    /\ svPc' = [svPc EXCEPT ![s] = "wait"]
    /\ UNCHANGED <<ctorVars, variant, N, engineVars, lifeVars, callVars, idx, tdIdx, startupErr,
                   defers, todo, stopVars>>

\* <-l.ctx.Done() returns; the goroutine's function ends and the deferred calls run.
SvCtxDone(s) ==
    /\ svPc[s] = "wait"
    /\ WaitOver(ctxCancelled)
    /\ svPc' = [svPc EXCEPT ![s] = "defer"]
    /\ defers' = [defers EXCEPT ![s] = RunOrder(@)]
    /\ UNCHANGED <<ctorVars, variant, N, engineVars, lifeVars, callVars, idx, tdIdx, startupErr,
                   todo, stopVars>>

\* Teardown: the deferred calls of the goroutine ---------------------------

\* defer close(l.shutdownDone) runs. Closing a closed channel panics; the
\* count records it.
SvCloseDone(s) ==
    /\ svPc[s] = "defer"
    /\ defers[s] # <<>> /\ Head(defers[s]) = "closeDone"
    /\ shutdownDone' = TRUE
    /\ doneCloses' = doneCloses + 1
    /\ defers' = [defers EXCEPT ![s] = Tail(@)]
    /\ UNCHANGED <<ctorVars, variant, N, engineVars, ctxCancelled, cancelledBy, directoryMonitors,
                   callVars, svPc, idx, tdIdx, startupErr, todo, stopVars>>

\* The deferred l.replica.Stop(false) is called ("single").
SvReplicaStopCall(s) ==
    /\ svPc[s] = "defer"
    /\ defers[s] # <<>> /\ Head(defers[s]) = "replicaStop"
    /\ tstate' = [tstate EXCEPT ![1] = "stopping"]
    /\ stopCalls' = [stopCalls EXCEPT ![1] = @ + 1]
    /\ defers' = [defers EXCEPT ![s] = Tail(@)]
    /\ svPc' = [svPc EXCEPT ![s] = "stopping"]
    /\ UNCHANGED <<ctorVars, variant, N, handle, openOK, openCalls, closeCalls, startCalls, started, logged,
                   lifeVars, callVars, idx, tdIdx, startupErr, todo, stopVars>>

\* l.replica.Stop(false) returns; an error is logged and nothing else.
SvReplicaStopReturn(s) ==
    /\ svPc[s] = "stopping"
    /\ tstate' = [tstate EXCEPT ![1] = "stopped"]
    /\ \E ok \in BOOLEAN :
        /\ logged' = IF ok THEN logged ELSE logged \cup {"stop"}
        /\ svPc' = [svPc EXCEPT ![s] = IF ok THEN "defer" ELSE AfterStopError(variant)]
    /\ UNCHANGED <<ctorVars, variant, N, handle, openOK, openCalls, closeCalls, startCalls, started, stopCalls,
                   lifeVars, callVars, idx, tdIdx, startupErr, defers, todo, stopVars>>

\* The deferred function of "store" begins: the loop over l.directoryMonitors.
SvMonitorsBegin(s) ==
    /\ svPc[s] = "defer"
    /\ defers[s] # <<>> /\ Head(defers[s]) = "closeMonitorsAndStore"
    /\ defers' = [defers EXCEPT ![s] = Tail(@)]
    /\ tdIdx' = [tdIdx EXCEPT ![s] = 1]
    /\ svPc' = [svPc EXCEPT ![s] = "monitors"]
    /\ UNCHANGED <<ctorVars, variant, N, engineVars, lifeVars, callVars, idx, startupErr, todo, stopVars>>

\* m.Close() is called for the next monitor of l.directoryMonitors.
SvMonitorCloseCall(s) ==
    /\ svPc[s] = "monitors"
    /\ tdIdx[s] <= Len(ClosedBeforeStore(directoryMonitors))
    /\ tstate' = [tstate EXCEPT ![directoryMonitors[tdIdx[s]]] = "stopping"]
    /\ stopCalls' = [stopCalls EXCEPT ![directoryMonitors[tdIdx[s]]] = @ + 1]
    /\ svPc' = [svPc EXCEPT ![s] = "monstopping"]
    /\ UNCHANGED <<ctorVars, variant, N, handle, openOK, openCalls, closeCalls, startCalls, started, logged,
                   lifeVars, callVars, idx, tdIdx, startupErr, defers, todo, stopVars>>

\* m.Close() returns (it has no result).
SvMonitorCloseReturn(s) ==
    /\ svPc[s] = "monstopping"
    /\ tstate' = [tstate EXCEPT ![directoryMonitors[tdIdx[s]]] = "stopped"]
    /\ tdIdx' = [tdIdx EXCEPT ![s] = @ + 1]
    /\ svPc' = [svPc EXCEPT ![s] = "monitors"]
    /\ UNCHANGED <<ctorVars, variant, N, handle, openOK, openCalls, closeCalls, startCalls, started, stopCalls,
                   logged, lifeVars, callVars, idx, startupErr, defers, todo, stopVars>>

\* l.db.Close() / l.store.Close(ctx) is called: as a deferred call of its own
\* ("replicas", "single") or after the loop over the monitors ("store").
SvCloseCall(s) ==
    /\ \/ /\ svPc[s] = "defer"
          /\ defers[s] # <<>> /\ Head(defers[s]) = "dbClose"
          /\ defers' = [defers EXCEPT ![s] = Tail(@)]
       \/ /\ svPc[s] = "monitors"
          /\ tdIdx[s] > Len(ClosedBeforeStore(directoryMonitors))
          /\ UNCHANGED defers
    /\ handle' = "closing"
    /\ closeCalls' = closeCalls + 1
    /\ svPc' = [svPc EXCEPT ![s] = "closing"]
    /\ UNCHANGED <<ctorVars, variant, N, openOK, openCalls, tstate, startCalls, started, stopCalls, logged,
                   lifeVars, callVars, idx, tdIdx, startupErr, todo, stopVars>>

\* Inside db.Close() ("replicas"): the DB stops a replica that is running,
\* one at a time.
EngineStopCall(i) ==
    /\ handle = "closing"
    /\ CloseStopsTasks(variant)
    /\ tstate[i] = "running"
    /\ \A j \in Tasks : tstate[j] # "stopping"
    /\ tstate' = [tstate EXCEPT ![i] = "stopping"]
    /\ stopCalls' = [stopCalls EXCEPT ![i] = @ + 1]
    /\ UNCHANGED <<ctorVars, variant, N, handle, openOK, openCalls, closeCalls, startCalls, started, logged,
                   lifeVars, callVars, svVars, stopVars>>

EngineStopReturn(i) ==
    /\ handle = "closing"
    /\ CloseStopsTasks(variant)
    /\ tstate[i] = "stopping"
    /\ tstate' = [tstate EXCEPT ![i] = "stopped"]
    /\ UNCHANGED <<ctorVars, variant, N, handle, openOK, openCalls, closeCalls, startCalls, started, stopCalls,
                   logged, lifeVars, callVars, svVars, stopVars>>

\* Close returns; an error is logged and nothing else. Where Close stops the
\* replicas it returns after they are stopped.
SvCloseReturn(s) ==
    /\ svPc[s] = "closing"
    /\ CloseStopsTasks(variant) => \A i \in Tasks : tstate[i] \notin {"running", "stopping"}
    /\ handle' = "closed"
    /\ \E ok \in BOOLEAN : logged' = IF ok THEN logged ELSE logged \cup {"close"}
    /\ svPc' = [svPc EXCEPT ![s] = "defer"]
    /\ UNCHANGED <<ctorVars, variant, N, openOK, openCalls, closeCalls, tstate, startCalls, started, stopCalls,
                   lifeVars, callVars, idx, tdIdx, startupErr, defers, todo, stopVars>>

\* All deferred calls ran: the goroutine has ended.
SvExit(s) ==
    /\ svPc[s] = "defer"
    /\ defers[s] = <<>>
    /\ svPc' = [svPc EXCEPT ![s] = "done"]
    /\ UNCHANGED <<ctorVars, variant, N, engineVars, lifeVars, callVars, idx, tdIdx, startupErr,
                   defers, todo, stopVars>>

\* Stop -------------------------------------------------------------------

\* Stop(ctx) is entered: l.cancel(), then the select. The calls are numbered
\* in the order of their l.cancel(); the context a caller passes may be done
\* already.
StopCall(c) ==
    /\ stopPc[c] = "idle"
    /\ \A b \in Stoppers : b < c => stopPc[b] # "idle"
    /\ \E expired \in BOOLEAN : deadline' = [deadline EXCEPT ![c] = expired]
    /\ ctxCancelled' = (ctxCancelled \/ Count(StopStatements(variant), "cancel") > 0)
    /\ cancelledBy' = cancelledBy \cup {IF ctxCancelled THEN "stopNoop" ELSE "stop"}
    /\ openCalls' = openCalls + Count(StopStatements(variant), "open")
    /\ closeCalls' = closeCalls + Count(StopStatements(variant), "close")
    /\ doneCloses' = doneCloses + Count(StopStatements(variant), "closeDone")
    /\ shutdownDone' = (shutdownDone \/ Count(StopStatements(variant), "closeDone") > 0)
    /\ stopPc' = [stopPc EXCEPT ![c] = "select"]
    /\ UNCHANGED <<ctorVars, variant, N, handle, openOK, tstate, startCalls, started,
                   stopCalls, logged, directoryMonitors, callVars, svVars, stopRet>>

\* The context the caller passed to Stop becomes done (deadline or cancel)
\* while Stop waits.
DeadlineExpire(c) ==
    /\ stopPc[c] = "select"
    /\ ~deadline[c]
    /\ deadline' = [deadline EXCEPT ![c] = TRUE]
    /\ UNCHANGED <<ctorVars, variant, N, engineVars, lifeVars, callVars, svVars, stopPc, stopRet>>

\* case <-l.shutdownDone: return nil
StopReturnNil(c) ==
    /\ stopPc[c] = "select"
    /\ SelectDone(shutdownDone)
    /\ stopPc' = [stopPc EXCEPT ![c] = "returned"]
    /\ stopRet' = [stopRet EXCEPT ![c] = StopDoneResult(logged)]
    /\ UNCHANGED <<ctorVars, variant, N, engineVars, lifeVars, callVars, svVars, deadline>>

\* case <-ctx.Done(): return ctx.Err()
StopReturnDeadline(c) ==
    /\ stopPc[c] = "select"
    /\ deadline[c]
    /\ stopPc' = [stopPc EXCEPT ![c] = "returned"]
    /\ stopRet' = [stopRet EXCEPT ![c] = "deadline"]
    /\ UNCHANGED <<ctorVars, variant, N, engineVars, lifeVars, callVars, svVars, deadline>>

----
CallerNext(s) == StartCall(s) \/ CallerOpenReturn(s) \/ StartReceive(s)

StartupNext(s) ==
    \/ SvOpenCall(s) \/ SvOpenReturn(s)
    \/ SvTaskStartCall(s) \/ SvTaskStartReturn(s) \/ SvLoopExit(s)
    \/ SvSend(s) \/ SvCancel(s) \/ SvFailReturn(s) \/ SvReported(s) \/ SvCtxDone(s)

TeardownNext(s) ==
    \/ SvCloseDone(s)
    \/ SvReplicaStopCall(s) \/ SvReplicaStopReturn(s)
    \/ SvMonitorsBegin(s) \/ SvMonitorCloseCall(s) \/ SvMonitorCloseReturn(s)
    \/ SvCloseCall(s) \/ SvCloseReturn(s)
    \/ SvExit(s)

EngineNext == \E i \in Tasks : EngineStopCall(i) \/ EngineStopReturn(i)

StopNext(c) == StopCall(c) \/ DeadlineExpire(c) \/ StopReturnNil(c) \/ StopReturnDeadline(c)

Next ==
    \/ \E s \in Starts : CallerNext(s) \/ StartupNext(s) \/ TeardownNext(s)
    \/ EngineNext
    \/ \E c \in Stoppers : StopNext(c)

Spec == Init /\ [][Next]_vars

\* The Go scheduler runs every goroutine that can take a step, and the calls
\* into the engine return. Start and Stop are called when the host chooses,
\* and the deadline of a Stop expires when it does: no fairness for those.
LiveSpec ==
    /\ Spec
    /\ \A s \in Starts :
        /\ WF_vars(CallerOpenReturn(s) \/ StartReceive(s))
        /\ WF_vars(StartupNext(s))
        /\ WF_vars(TeardownNext(s))
    /\ WF_vars(EngineNext)

\* A host that calls Start a second time, here once the first call has
\* returned and its goroutine (if one was launched) has ended. Start has no
\* guard against it: it runs on the same l.ctx, l.shutdownDone and source.
SecondStartCall ==
    /\ callerPc[1] = "returned"
    /\ svPc[1] \in {"none", "done"}
    /\ StartCall(2)

\* close() of a closed channel panics and the process ends: nothing runs
\* once l.shutdownDone was closed a second time.
RestartNext ==
    /\ doneCloses < 2
    /\ \/ Next
       \/ SecondStartCall
       \/ CallerOpenReturn(2) \/ StartReceive(2)
       \/ StartupNext(2)
       \/ TeardownNext(2)

RestartSpec == Init /\ [][RestartNext]_vars

\* A host that, after its first Stop call, calls Stop again only when
\* l.shutdownDone is closed (the shutdown is complete).
StopAgainCall(c) ==
    /\ c > 1 => shutdownDone
    /\ StopCall(c)

StopAgainNext ==
    \/ \E s \in Starts : CallerNext(s) \/ StartupNext(s) \/ TeardownNext(s)
    \/ EngineNext
    \/ \E c \in Stoppers :
        StopAgainCall(c) \/ DeadlineExpire(c) \/ StopReturnNil(c) \/ StopReturnDeadline(c)

StopAgainSpec == Init /\ [][StopAgainNext]_vars

\* A host that calls Stop on the constructed instance first and Start only
\* when that Stop has returned.
LateStartCall(s) ==
    /\ stopPc[1] = "returned"
    /\ StartCall(s)

StopFirstNext ==
    \/ \E s \in Starts :
        \/ LateStartCall(s) \/ CallerOpenReturn(s) \/ StartReceive(s)
        \/ StartupNext(s)
        \/ TeardownNext(s)
    \/ EngineNext
    \/ \E c \in Stoppers : StopNext(c)

StopFirstSpec == Init /\ [][StopFirstNext]_vars

\* The goroutines are scheduled and the engine calls return, as in LiveSpec;
\* no fairness for the calls of the host and the deadlines.
StopFirstLiveSpec ==
    /\ StopFirstSpec
    /\ \A s \in Starts :
        /\ WF_vars(CallerOpenReturn(s) \/ StartReceive(s))
        /\ WF_vars(StartupNext(s))
        /\ WF_vars(TeardownNext(s))
    /\ WF_vars(EngineNext)

\* A Stop whose select has a ready case returns: its goroutine is scheduled
\* like any other.
StopLiveSpec ==
    /\ LiveSpec
    /\ \A c \in Stoppers : WF_vars(StopReturnNil(c) \/ StopReturnDeadline(c))

----
\* NewLitestream ------------------------------------------------------------
\* Two versions: "p584" takes dbPath as an argument and reads the interval
\* settings (part_006, 584-722); "p867" reads cfg.DBPath and checks the S3
\* settings (part_006, 867-944).
NlVersions == {"p584", "p867"}

DbPaths == {"", "db"}
Names == {"", "a", "b"}
DurStrings == {"", "0", "5s", "10", "bad"}

\* time.ParseDuration: "0" is the zero duration, any other number needs a
\* unit, and the empty string is no duration.
ParseDuration(s) ==
    CASE s = "0" -> [ok |-> TRUE, secs |-> 0]
      [] s = "5s" -> [ok |-> TRUE, secs |-> 5]
      [] OTHER -> [ok |-> FALSE, secs |-> 0]

\* A setting of the DB or of a replica: what the engine's constructor gave
\* it, or a duration assigned to it.
EngineDefault == [set |-> FALSE, secs |-> 0]
Assigned(d) == [set |-> TRUE, secs |-> d]

\* filepath.Abs of a relative path.
AbsPath(path) == IF path = "p" THEN "/wd/p" ELSE path

NoTiming == [sync |-> "", snap |-> "", ret |-> "", retcheck |-> ""]
\* The timing settings of a ReplicaConfig, at most one of them given.
Timings ==
    {NoTiming}
    \cup {[NoTiming EXCEPT !.sync = s] : s \in DurStrings}
    \cup {[NoTiming EXCEPT !.snap = s] : s \in DurStrings}
    \cup {[NoTiming EXCEPT !.ret = s] : s \in DurStrings}
    \cup {[NoTiming EXCEPT !.retcheck = s] : s \in DurStrings}

\* Type and the settings of that type of a ReplicaConfig.
KindSettings ==
    {[type |-> "file", path |-> q, bucket |-> "", region |-> ""] : q \in {"", "p"}}
    \cup {[type |-> "s3", path |-> "", bucket |-> b, region |-> r] :
            b \in {"", "bk"}, r \in {"", "eu"}}
    \cup {[type |-> "ftp", path |-> "", bucket |-> "", region |-> ""]}

ReplicaConfig(nm, k, tm) ==
    [name |-> nm, type |-> k.type, path |-> k.path, bucket |-> k.bucket,
     region |-> k.region, t |-> tm]

\* The ReplicaConfigs a Config is made of: every name with every type and
\* its settings, and for "p584", whose ReplicaConfig has them, the timing
\* settings on a file replica.
ReplicaConfigs(v) ==
    {ReplicaConfig(nm, k, NoTiming) : nm \in Names, k \in KindSettings}
    \cup IF v = "p584"
         THEN {ReplicaConfig(nm, [type |-> "file", path |-> "p", bucket |-> "", region |-> ""], tm) :
                 nm \in {"a", "b"}, tm \in Timings}
         ELSE {}

NlNoErr == [kind |-> "none", name |-> "", type |-> ""]
NlErr(k, rc) == [kind |-> k, name |-> rc.name, type |-> rc.type]
NoDb == [made |-> FALSE, monitor |-> EngineDefault, checkpoint |-> EngineDefault]
NoReplica == [name |-> "", client |-> [type |-> "none"], sync |-> EngineDefault,
              snap |-> EngineDefault, ret |-> EngineDefault, retcheck |-> EngineDefault]

\* Faulty variant: the context and the DB object are made before the
\* replicas are counted.
EntryMakesFirst(v) ==
    IF v = "p584" THEN <<"dbPath", "make", "replicas", "monitor", "checkpoint">>
    ELSE <<"make", "replicas">>
\* What NewLitestream does before its loop, in order: "dbPath" and "replicas"
\* are the checks of the arguments, "make" is context.WithCancel and
\* litestream.NewDB, "monitor" and "checkpoint" are the settings of the DB.
EntrySteps(v) ==
    IF v = "p584" THEN <<"dbPath", "replicas", "make", "monitor", "checkpoint">>
    ELSE <<"replicas", "make">>

\* return nil, fmt.Errorf(...): with cancel() before it once the context exists.
NlFail(st, e) ==
    [st EXCEPT !.pc = "returned", !.ret = "nil", !.err = e,
               !.ctx = IF @ = "live" THEN "cancelled" ELSE @]

RECURSIVE RunEntry(_, _)
RunEntry(steps, st) ==
    IF steps = <<>> THEN [st EXCEPT !.pc = "loop"]
    ELSE LET step == Head(steps)
             rest == Tail(steps)
             bad(k) == NlFail(st, [kind |-> k, name |-> "", type |-> ""])
         IN  CASE step = "dbPath" ->
                    IF st.dbPath = "" THEN bad("dbPath") ELSE RunEntry(rest, st)
               [] step = "replicas" ->
                    IF st.n = 0 THEN bad("noReplicas") ELSE RunEntry(rest, st)
               [] step = "make" ->
                    RunEntry(rest, [st EXCEPT !.ctx = "live", !.db.made = TRUE])
               [] step = "monitor" ->
                    IF st.monitor = "" THEN RunEntry(rest, st)
                    ELSE IF ~ParseDuration(st.monitor).ok THEN bad("monitorInterval")
                    ELSE RunEntry(rest, [st EXCEPT !.db.monitor =
                                            Assigned(ParseDuration(st.monitor).secs)])
               [] step = "checkpoint" ->
                    IF st.checkpoint = "" THEN RunEntry(rest, st)
                    ELSE IF ~ParseDuration(st.checkpoint).ok THEN bad("checkpointInterval")
                    ELSE RunEntry(rest, [st EXCEPT !.db.checkpoint =
                                            Assigned(ParseDuration(st.checkpoint).secs)])

\* Only "p867" has the check of rc.S3Bucket and rc.S3Region.
S3SettingsChecked(v) == v = "p867"

\* Faulty variant: a type that is neither "file" nor "s3" is let through.
UnknownTypePasses(v) == FALSE
\* The default case of the switch on rc.Type returns an error.
UnknownTypeFails(v) == TRUE

NoClient == [type |-> "none", path |-> "", bucket |-> "", region |-> ""]

\* The switch on rc.Type: the error it returns or the client it makes, and
\* whether os.MkdirAll was called. mk and ab are what os.MkdirAll ("exists"
\* is an error that os.IsExist accepts) and filepath.Abs do.
ClientOf(v, rc, mk, ab) ==
    CASE rc.type = "file" ->
            IF rc.path = "" THEN [err |-> "filePath", mkdir |-> FALSE, client |-> NoClient]
            ELSE IF mk = "fail" THEN [err |-> "mkdir", mkdir |-> TRUE, client |-> NoClient]
            ELSE IF ab = "fail" THEN [err |-> "abs", mkdir |-> TRUE, client |-> NoClient]
            ELSE [err |-> "none", mkdir |-> TRUE,
                  client |-> [type |-> "file", path |-> AbsPath(rc.path),
                              bucket |-> "", region |-> ""]]
      [] rc.type = "s3" ->
            IF S3SettingsChecked(v) /\ (rc.bucket = "" \/ rc.region = "")
            THEN [err |-> "s3Settings", mkdir |-> FALSE, client |-> NoClient]
            ELSE [err |-> "none", mkdir |-> FALSE,
                  client |-> [type |-> "s3", path |-> "", bucket |-> rc.bucket,
                              region |-> rc.region]]
      [] OTHER ->
            [err |-> IF UnknownTypeFails(v) THEN "unsupportedType" ELSE "none",
             mkdir |-> FALSE, client |-> NoClient]

\* A given duration that time.ParseDuration rejects.
BadDuration(s) == s # "" /\ ~ParseDuration(s).ok

\* An interval of the replica: left as the engine made it when the setting
\* is absent, else the parsed duration.
Setting(s) == IF s = "" THEN EngineDefault ELSE Assigned(ParseDuration(s).secs)

\* Faulty variant: an absent retention leaves the engine's default.
RetentionKeepsDefault(s) == Setting(s)
\* replica.Retention: the parsed duration, and 0 for "" and "0".
RetentionOf(s) == IF s = "" \/ s = "0" THEN Assigned(0) ELSE Assigned(ParseDuration(s).secs)

\* The first of the timing settings that does not parse ("p584" only).
TimingError(v, tm) ==
    IF v # "p584" THEN "none"
    ELSE IF BadDuration(tm.sync) THEN "syncInterval"
    ELSE IF BadDuration(tm.snap) THEN "snapshotInterval"
    ELSE IF BadDuration(tm.ret) THEN "retention"
    ELSE IF BadDuration(tm.retcheck) THEN "retentionCheckInterval"
    ELSE "none"

\* The replica made from rc and client c: litestream.NewReplica(db, rc.Name)
\* and the assignments to it.
ReplicaOf(v, rc, c) ==
    IF v = "p584"
    THEN [name |-> rc.name, client |-> c, sync |-> Setting(rc.t.sync),
          snap |-> Setting(rc.t.snap), ret |-> RetentionOf(rc.t.ret),
          retcheck |-> Setting(rc.t.retcheck)]
    ELSE [NoReplica EXCEPT !.name = rc.name, !.client = c]

\* One pass of the loop over cfg.Replicas on rc.
Configure(v, rc, mk, ab) ==
    IF rc.name = "" THEN [err |-> "name", mkdir |-> FALSE, replica |-> NoReplica]
    ELSE LET c == ClientOf(v, rc, mk, ab)
         IN  IF c.err # "none" THEN [err |-> c.err, mkdir |-> c.mkdir, replica |-> NoReplica]
             ELSE IF TimingError(v, rc.t) # "none"
                  THEN [err |-> TimingError(v, rc.t), mkdir |-> c.mkdir, replica |-> NoReplica]
             ELSE [err |-> "none", mkdir |-> c.mkdir, replica |-> ReplicaOf(v, rc, c.client)]

\* Faulty variant: a ReplicaConfig that fails is skipped and the loop goes on.
SkipFailedReplica(v) == FALSE
\* Every error in the loop returns from NewLitestream.
ReturnOnReplicaError(v) == TRUE

\* The calls of NewLitestream: the version, dbPath (cfg.DBPath in "p867"),
\* the settings of the DB ("p584") and the length of cfg.Replicas.
NlCalls ==
    {[pc |-> "call", version |-> v, dbPath |-> d, monitor |-> m, checkpoint |-> c,
      n |-> k, rcs |-> <<>>, ctx |-> "none", db |-> NoDb, replicas |-> <<>>,
      mkdirs |-> <<>>, ret |-> "none", err |-> NlNoErr] :
        v \in NlVersions, d \in DbPaths, m \in {"", "5s", "bad"},
        c \in {"", "5s", "bad"}, k \in 0..MaxTasks}

NlInit ==
    /\ nl \in {c \in NlCalls : c.version = "p867" => c.monitor = "" /\ c.checkpoint = ""}
    /\ nw = Elsewhere
    /\ variant = "replicas"
    /\ N = 0
    /\ Fresh

\* NewLitestream up to its loop.
NlEnter ==
    /\ nl.pc = "call"
    /\ nl' = RunEntry(EntrySteps(nl.version), nl)
    /\ UNCHANGED <<nw, variant, N, engineVars, lifeVars, callVars, svVars, stopVars>>

\* One pass of the loop, on the next ReplicaConfig of cfg.Replicas.
NlConfigureReplica ==
    /\ nl.pc = "loop"
    /\ Len(nl.rcs) < nl.n
    /\ \E rc \in ReplicaConfigs(nl.version), mk \in {"ok", "exists", "fail"}, ab \in {"ok", "fail"} :
        LET r == Configure(nl.version, rc, mk, ab)
            seen == [nl EXCEPT !.rcs = Append(@, rc),
                               !.mkdirs = IF r.mkdir THEN Append(@, rc.path) ELSE @]
        IN  nl' = IF r.err = "none" THEN [seen EXCEPT !.replicas = Append(@, r.replica)]
                  ELSE IF ReturnOnReplicaError(nl.version) THEN NlFail(seen, NlErr(r.err, rc))
                  ELSE seen
    /\ UNCHANGED <<nw, variant, N, engineVars, lifeVars, callVars, svVars, stopVars>>

\* return &Litestream{...}, nil: the instance holds the replicas made.
NlReturn ==
    /\ nl.pc = "loop"
    /\ Len(nl.rcs) = nl.n
    /\ nl' = [nl EXCEPT !.pc = "returned", !.ret = "litestream"]
    /\ N' = Len(nl.replicas)
    /\ UNCHANGED <<nw, variant, engineVars, lifeVars, callVars, svVars, stopVars>>

NlNext == NlEnter \/ NlConfigureReplica \/ NlReturn

NlSpec == NlInit /\ [][NlNext]_vars

----
\* New(app) of litestream.go: the configuration is loaded from the
\* ConfigStore of the application, parsed by config.ParseConfig and handed
\* to setup.

\* What the store holds under ConfigScope: nothing, a litestream.yml that
\* parses, one that does not, and two that hold environment-variable syntax
\* ($HOME, ${VAR}), in a value or in a comment only.
ConfigDatas == {"", "good", "malformed", "envValue", "envComment"}
Formats == {"yaml", "toml", "json"}

\* app.ConfigStore().Get(ConfigScope, 0): an error, or data and its format.
GetResults ==
    {[err |-> TRUE, data |-> "", format |-> ""]}
        \cup {[err |-> FALSE, data |-> d, format |-> f] : d \in ConfigDatas, f \in Formats}

HasEnvSyntax(d) == d \in {"envValue", "envComment"}

\* The check README.md describes: "The presence of environment variable
\* syntax will cause the application to fail, even if the variables are
\* inside comments". It is made inside config.ParseConfig.
EnvSyntaxRejected(d) == HasEnvSyntax(d)

\* config.ParseConfig(bytes.NewReader(configData), false) returns an error.
ParseFails(d) == d = "malformed" \/ EnvSyntaxRejected(d)

\* Faulty variant: the format of the data is not looked at.
AnyFormatAccepted(f) == TRUE
\* if format != "yaml" { return nil, ... }
FormatAccepted(f) == f = "yaml"

\* A database entry of the parsed configuration: a directory (watched or
\* not) or a single database.
DbConfigs == {"dir", "dirWatch", "single"}

NwCall ==
    [pc |-> "call", get |-> [err |-> FALSE, data |-> "", format |-> ""],
     logging |-> FALSE, initLog |-> FALSE, dbs |-> 0, dbcs |-> <<>>,
     found |-> 0, watchables |-> 0, store |-> FALSE, ctx |-> "none", ret |-> "none", err |-> "none"]

\* return nil, fmt.Errorf(...)
NwFail(st, e) == [st EXCEPT !.pc = "returned", !.ret = "nil", !.err = e]

NewInit ==
    /\ nw = NwCall
    /\ nl = Elsewhere
    /\ variant = "store"
    /\ N = 0
    /\ Fresh

\* Lines 267-279: the configuration is read from the store and looked at.
NwLoad ==
    /\ nw.pc = "call"
    /\ \E g \in GetResults :
        LET got == [nw EXCEPT !.get = g]
        IN  nw' = IF g.err THEN NwFail(got, "load")
                  ELSE IF g.data = "" THEN NwFail(got, "empty")
                  ELSE IF ~FormatAccepted(g.format) THEN NwFail(got, "format")
                  ELSE [got EXCEPT !.pc = "loaded"]
    /\ UNCHANGED <<nl, variant, N, engineVars, lifeVars, callVars, svVars, stopVars>>

\* Lines 281-296 and 301-303: the data is parsed, the logger of the engine
\* is set when the configuration has a logging section, setup is entered.
NwParse ==
    /\ nw.pc = "loaded"
    /\ IF ParseFails(nw.get.data)
       THEN nw' = NwFail(nw, "parse")
       ELSE \E lg \in BOOLEAN, k \in 0..MaxTasks :
            LET parsed == [nw EXCEPT !.logging = lg, !.initLog = lg, !.dbs = k]
            IN  nw' = IF k = 0 THEN NwFail(parsed, "noDatabases")
                      ELSE [parsed EXCEPT !.pc = "setup"]
    /\ UNCHANGED <<nl, variant, N, engineVars, lifeVars, callVars, svVars, stopVars>>

\* One pass of the loop of setup over cfg.DBs: the databases found in a
\* directory (dirDbs) or the single database join dbs, a watched directory
\* joins watchables.
NwSetupDb ==
    /\ nw.pc = "setup"
    /\ Len(nw.dbcs) < nw.dbs
    /\ \E dc \in DbConfigs, ok \in BOOLEAN, dirDbs \in 0..MaxTasks :
        LET seen == [nw EXCEPT !.dbcs = Append(@, dc)]
        IN  /\ dc = "single" => dirDbs = 1
            /\ nw' = IF ~ok THEN NwFail(seen, "db")
                     ELSE [seen EXCEPT !.found = @ + dirDbs,
                                       !.watchables = IF dc = "dirWatch" THEN @ + 1 ELSE @]
    /\ UNCHANGED <<nl, variant, N, engineVars, lifeVars, callVars, svVars, stopVars>>

\* Lines 332-381: the Store and the context are made and the instance is
\* returned.
NwReturn ==
    /\ nw.pc = "setup"
    /\ Len(nw.dbcs) = nw.dbs
    /\ nw' = [nw EXCEPT !.pc = "returned", !.store = TRUE, !.ctx = "live",
                        !.ret = "litestream"]
    /\ N' = nw.watchables
    /\ UNCHANGED <<nl, variant, engineVars, lifeVars, callVars, svVars, stopVars>>

NewNext == NwLoad \/ NwParse \/ NwSetupDb \/ NwReturn

NewSpec == NewInit /\ [][NewNext]_vars

----
\* Notions the properties share.

\* Task k is the first task whose start failed.
FirstFailed(k) ==
    /\ tstate[k] = "startfailed"
    /\ \A j \in Tasks : j < k => tstate[j] # "startfailed"

\* The supervisor of Start call s reported success.
StartupSucceeded(s) == sends[s] > 0 /\ startupErr[s] = NoErr

\* Open was called and returned an error.
OpenFailed == openCalls > 0 /\ ~openOK /\ handle # "opening"

\* Start call s returned an error.
StartFailed(s) == callerPc[s] = "returned" /\ startRet[s].kind \in {"open", "task"}

\* No Stop call was made.
NoStopCalled == \A c \in Stoppers : stopPc[c] = "idle"

\* C1: when the start of a task has failed, no start was attempted for any
\* task declared after it, at any point of the execution.
C1_NoStartAfterFailure ==
    \A i \in Tasks : tstate[i] = "startfailed" =>
        \A j \in Tasks : j > i => startCalls[j] = 0

C1_Witness ==
    /\ N >= 2
    /\ tstate[1] = "startfailed"
    /\ \A s \in Starts : svPc[s] = "done" /\ callerPc[s] = "returned"

\* C2: when task k is the first whose start failed and Start has returned,
\* Start returned an error, not nil, whose cause is the start error of task k.
C2_StartReturnsKthError ==
    \A s \in Starts : \A k \in Tasks :
        (FirstFailed(k) /\ callerPc[s] = "returned") =>
            /\ startRet[s] # NoErr
            /\ Cause(startRet[s]) = TaskErr(k)

C2_Witness ==
    \E s \in Starts : callerPc[s] = "returned" /\ FirstFailed(2) /\ 1 \in started

C4_StopBeforeClose ==
    \A s \in Starts : StartupSucceeded(s) =>
        /\ handle = "closed" =>
            \A i \in started : stopCalls[i] >= 1 /\ tstate[i] = "stopped"
        /\ (handle = "closing" /\ ~CloseStopsTasks(variant)) =>
            \A i \in started : stopCalls[i] >= 1 /\ tstate[i] = "stopped"
        /\ \A i \in Tasks : stopCalls[i] > 0 => i \in started

C4_Witness ==
    /\ \E s \in Starts : StartupSucceeded(s) /\ callerPc[s] = "returned"
    /\ handle = "closed"
    /\ started = 1..N /\ N >= 1
    /\ \A i \in started : stopCalls[i] = 1

\* C5: once Start has returned an error, with or without a Stop call, the
\* program reaches a state where no task is starting, running or being
\* stopped, the handle is not open, and the supervisor (if one was
\* launched) has ended.
C5_FailedStartLeavesNothingRunning ==
    \A s \in Starts :
        StartFailed(s) ~>
            /\ \A i \in Tasks : tstate[i] \notin {"starting", "running", "stopping"}
            /\ handle \notin {"opening", "open", "closing"}
            /\ svPc[s] \in {"none", "done"}

C5_Witness ==
    /\ NoStopCalled
    /\ \E s \in Starts : StartFailed(s) /\ svPc[s] = "done"
    /\ started # {}
    /\ \A i \in started : tstate[i] = "stopped"
    /\ handle = "closed"

\* C6: every task is started at most once, a task beyond the first is started
\* only after the start of the task declared before it has returned, only
\* the N configured tasks are started, and no two starts are in progress at
\* the same time.
C6_StartsInDeclaredOrder ==
    /\ \A j \in Tasks : startCalls[j] <= 1
    /\ \A j \in Tasks : (j > 1 /\ startCalls[j] > 0) =>
            startCalls[j - 1] = 1 /\ tstate[j - 1] \notin {"idle", "starting"}
    /\ \A j \in Tasks : j > N => startCalls[j] = 0
    /\ Cardinality({i \in Tasks : tstate[i] = "starting"}) <= 1

C6_Witness ==
    /\ N >= 2
    /\ tstate[1] = "running"
    /\ tstate[2] = "starting"

\* C7: when Start has returned nil, Open had returned nil and the start of
\* each of the N tasks had returned nil.
C7_NilOnlyAfterAllStarted ==
    \A s \in Starts : (callerPc[s] = "returned" /\ startRet[s] = NoErr) =>
        /\ openOK
        /\ \A i \in 1..N : i \in started

C7_Witness ==
    /\ N >= 2
    /\ \E s \in Starts : callerPc[s] = "returned" /\ startRet[s] = NoErr /\ svPc[s] = "wait"

\* C8: every Start call that was made returns, whether or not Stop is called,
\* and the supervisor does not stay at a send on the startup channel.
C8_StartReturns ==
    \A s \in Starts :
        /\ (callerPc[s] # "idle") ~> (callerPc[s] = "returned")
        /\ (svPc[s] \in {"fail", "report"}) ~> (svPc[s] \notin {"fail", "report"})

C8_Witness ==
    /\ NoStopCalled
    /\ \E s \in Starts :
        /\ callerPc[s] = "returned"
        /\ sends[s] = 2
        /\ svPc[s] = "wait"

\* C9: when Open has failed, no task start was attempted, and if Start has
\* returned it returned the open error.
C9_OpenFailureStartsNothing ==
    OpenFailed =>
        /\ \A i \in Tasks : startCalls[i] = 0
        /\ \A s \in Starts : callerPc[s] = "returned" => Cause(startRet[s]) = OpenErr

C9_Witness ==
    /\ OpenFailed
    /\ \E s \in Starts : callerPc[s] = "returned" /\ svPc[s] \in {"none", "done"}

\* C10: Close is called at most once and no task is stopped twice, whoever
\* cancelled the context; and when the supervisor has ended, every started
\* task was stopped once and Close was called once (in "single", where the
\* Close is registered after Open: once if Open succeeded, else not at all).
C10_TeardownExactlyOnce ==
    /\ closeCalls <= 1
    /\ \A i \in Tasks : stopCalls[i] <= 1
    /\ \A s \in Starts : svPc[s] = "done" =>
        /\ closeCalls = IF variant = "single" /\ ~openOK THEN 0 ELSE 1
        /\ \A i \in started : stopCalls[i] = 1

C10_Witness ==
    /\ cancelledBy = {"fatal", "stop"}
    /\ \A s \in Starts : svPc[s] = "done"
    /\ closeCalls = 1
    /\ started # {}

----
\* C11: whenever Start has been called, shutdown-complete is fired exactly
\* once on every exit path of startup. In the form a finite run refutes:
\* the signal is never fired twice, and once Start has returned an error and
\* no goroutine of it is running (it ended, or was never launched), the
\* signal has been fired. The version of part_006 returns from a failed
\* db.Open() before the goroutine that would close l.shutdownDone exists.
C11_SignalOnEveryExitPath ==
    /\ doneCloses <= 1
    /\ \A s \in Starts :
        (StartFailed(s) /\ svPc[s] \in {"none", "done"}) => shutdownDone

\* C12: shutdown-complete is the last thing the supervisor does. Once it is
\* signalled (and so whenever Stop has returned nil) the source handle is not
\* open, every started task has had its one stop, and from then on nothing of
\* the engine, the monitors list, the signal or the startup channel's sends
\* changes any more.
C12_Torn ==
    /\ handle \in {"closed", "openfailed"}
    /\ \A i \in started : stopCalls[i] = 1 /\ tstate[i] = "stopped"
    /\ \A s \in Starts : svPc[s] \in {"none", "defer", "done"} /\ defers[s] = <<>>

C12_ShutdownDoneIsLast ==
    /\ [](shutdownDone => C12_Torn)
    /\ [](\A c \in Stoppers : stopRet[c] = "nil" => C12_Torn)
    /\ [][shutdownDone =>
            UNCHANGED <<engineVars, shutdownDone, doneCloses, directoryMonitors, sends>>]_vars

C12_Witness ==
    /\ stopRet[1] = "nil"
    /\ N = MaxTasks /\ started = 1..N
    /\ handle = "closed"
    /\ svPc[1] = "done"

\* C13: Stop cancels the lifecycle context before it waits; it returns nil
\* only when shutdown-complete has been fired, the deadline error only when
\* the caller's context is done, and it returns nothing else.
C13_StopReturnsOnSignalOrDeadline ==
    \A c \in Stoppers :
        /\ stopPc[c] # "idle" => ctxCancelled
        /\ stopRet[c] = "nil" => shutdownDone
        /\ stopRet[c] = "deadline" => deadline[c]
        /\ stopPc[c] = "returned" <=> stopRet[c] \in {"nil", "deadline"}
        /\ stopPc[c] = "returned" => shutdownDone \/ deadline[c]

C13_Witness ==
    /\ stopRet[1] = "deadline" /\ stopRet[2] = "nil"
    /\ ~deadline[2]

\* C14: what teardown fails with is logged and never returned by Stop. A Stop
\* that has returned gave nil (then the signal was fired) or its caller's
\* deadline error (then the caller's context was done), and a Stop that
\* returned while its caller's context was not done gave nil whatever
\* teardown logged.
C14_TeardownErrorsNotReturned ==
    \A c \in Stoppers : stopPc[c] = "returned" =>
        /\ stopRet[c] \in {"nil", "deadline"}
        /\ stopRet[c] = "deadline" => deadline[c]
        /\ ~deadline[c] => stopRet[c] = "nil"

C14_Witness ==
    /\ logged = {"close", "stop"}
    /\ stopRet[1] = "nil"

\* C15: once the stop of a task has failed in teardown, the rest of teardown
\* still happens: every started task gets its stop, the source handle gets
\* closed and shutdown-complete gets signalled.
C15_StopFailureDoesNotEndTeardown ==
    ("stop" \in logged) ~>
        /\ shutdownDone
        /\ handle = "closed" /\ closeCalls = 1
        /\ \A i \in started : stopCalls[i] = 1

C15_Witness ==
    /\ "stop" \in logged
    /\ shutdownDone
    /\ handle = "closed"

\* C16: a second Stop, after or during the first, triggers no second
\* teardown and no second close of the signal (which would panic), and each
\* call returns nil or its own deadline error; both wait on the one signal.
C16_StopIdempotent ==
    (\A c \in Stoppers : stopPc[c] # "idle") =>
        /\ closeCalls <= 1
        /\ doneCloses <= 1
        /\ \A i \in Tasks : stopCalls[i] <= 1
        /\ \A c \in Stoppers :
            /\ stopRet[c] \in {"none", "nil", "deadline"}
            /\ stopRet[c] = "deadline" => deadline[c]
            /\ stopRet[c] = "nil" => shutdownDone /\ doneCloses = 1

C16_Witness ==
    /\ \A c \in Stoppers : stopRet[c] = "nil"
    /\ closeCalls = 1 /\ doneCloses = 1
    /\ started # {}

\* C17: a Stop that returned its deadline error has not ended the teardown:
\* the supervisor that was launched still gets to fire shutdown-complete, and
\* another Stop that is waiting then returns nil unless its own deadline
\* expires first.
C17_TeardownUnderWay(d) ==
    /\ \E c \in Stoppers \ {d} : stopRet[c] = "deadline"
    /\ \E s \in Starts : svPc[s] # "none"

C17_TimedOutStopLeavesTeardownRunning ==
    /\ C17_TeardownUnderWay(0) ~> shutdownDone
    /\ \A d \in Stoppers :
        (C17_TeardownUnderWay(d) /\ stopPc[d] = "select")
            ~> (stopRet[d] = "nil" \/ deadline[d])

C17_Witness ==
    /\ stopRet[1] = "deadline"
    /\ stopRet[2] = "nil" /\ ~deadline[2]
    /\ svPc[1] = "done"
    /\ started # {}

\* Start has not returned nil: it was not called, is in progress, or failed.
NotStartedOK == \A s \in Starts : startRet[s] # NoErr

\* C18: a Stop called while Start has not returned nil never closes the
\* signal a second time (no panic), can always return once its caller's
\* deadline has passed, and when the fatal-startup path has cancelled the
\* lifecycle context before, the Stop's own cancel changes nothing but the
\* Stop's position.
C18_StopSafeWithoutStart ==
    /\ [](NotStartedOK => doneCloses <= 1)
    /\ [](\A c \in Stoppers :
            (NotStartedOK /\ stopPc[c] = "select" /\ deadline[c])
                => ENABLED StopReturnDeadline(c))
    /\ [][\A c \in Stoppers :
            ("fatal" \in cancelledBy /\ stopPc[c] = "idle" /\ stopPc'[c] = "select")
                => UNCHANGED <<engineVars, ctxCancelled, shutdownDone, doneCloses,
                               directoryMonitors, callVars, svVars, stopRet>>]_vars

C18_Witness ==
    /\ cancelledBy = {"fatal", "stopNoop"}
    /\ NotStartedOK
    /\ \E c \in Stoppers : stopRet[c] = "deadline"

\* C19: from Start returning nil until the lifecycle context is cancelled
\* the supervisor sits at its report or its wait: the source handle is open,
\* every task is started and running, nothing was closed or stopped, and the
\* signal is not fired.
C19_NothingStoppedBeforeCancel ==
    \A s \in Starts :
        (callerPc[s] = "returned" /\ startRet[s] = NoErr /\ ~ctxCancelled) =>
            /\ svPc[s] \in {"report", "wait"}
            /\ handle = "open" /\ closeCalls = 0
            /\ started = 1..N
            /\ \A i \in 1..N : tstate[i] = "running" /\ stopCalls[i] = 0
            /\ ~shutdownDone

C19_Witness ==
    /\ callerPc[1] = "returned" /\ startRet[1] = NoErr
    /\ ~ctxCancelled
    /\ svPc[1] = "wait"
    /\ N = MaxTasks

\* The lifecycle state of the instance, as its host sees it: constructed
\* until Start is called, starting while a Start call has not returned,
\* failed-to-start when the last Start returned an error; after a Start
\* that returned nil, running until the lifecycle context is cancelled,
\* stopping until shutdown-complete is signalled, stopped from then on.
Phase ==
    IF \A s \in AllStarts : callerPc[s] = "idle" THEN "constructed"
    ELSE IF \E s \in AllStarts : callerPc[s] \in {"opening", "recv"} THEN "starting"
    ELSE LET last == IF callerPc[2] = "returned" THEN 2 ELSE 1
         IN  IF startRet[last] # NoErr THEN "failed"
             ELSE IF shutdownDone THEN "stopped"
             ELSE IF ctxCancelled THEN "stopping"
             ELSE "running"

\* The moves of constructed -> starting -> running -> stopping -> stopped
\* and starting -> failed-to-start, a state skipped or not.
Forward ==
    {<<"constructed", "starting">>,
     <<"starting", "running">>, <<"starting", "stopping">>, <<"starting", "stopped">>,
     <<"starting", "failed">>,
     <<"running", "stopping">>, <<"running", "stopped">>,
     <<"stopping", "stopped">>}

\* C20: the lifecycle state of an instance only moves forward, stopped and
\* failed-to-start are terminal, and no Start or Stop call brings the
\* instance back to an earlier state.
C20_LifecycleOnlyForward ==
    [][Phase' # Phase => <<Phase, Phase'>> \in Forward]_vars

----
\* Construction (NlSpec, NewSpec).

\* What the ReplicaSpec resolver of the design rejects: no name, a file
\* replica without a path, an object-store replica without bucket or region.
LacksMandatory(rc) ==
    \/ rc.name = ""
    \/ rc.type = "file" /\ rc.path = ""
    \/ rc.type = "s3" /\ (rc.bucket = "" \/ rc.region = "")

UnknownType(rc) == rc.type \notin {"file", "s3"}

UnparsableTiming(rc) ==
    \E s \in {rc.t.sync, rc.t.snap, rc.t.ret, rc.t.retcheck} : s \notin {"", "0", "5s"}

NlReturned == nl.pc = "returned"
\* The ReplicaConfigs of cfg.Replicas the call has read.
Read == 1..Len(nl.rcs)

\* C21: a Config in which two replica specs have the same name is refused
\* with an error: no instance is returned and no replica is made.
C21_DuplicateNamesRefused ==
    (NlReturned /\ \E i, j \in Read : i < j /\ nl.rcs[i].name = nl.rcs[j].name) =>
        /\ nl.ret = "nil" /\ nl.err.kind # "none"
        /\ N = 0

\* C22: every replica of a returned instance comes from a spec with a name
\* and with the mandatory settings of its type, and a spec that lacks one of
\* them makes the construction fail.
C22_MandatorySettingsPresent ==
    /\ nl.ret = "litestream" => \A i \in Read : ~LacksMandatory(nl.rcs[i])
    /\ \A i \in Read : LacksMandatory(nl.rcs[i]) => nl.ret = "nil"

\* C23: a Config without replicas is refused before anything is made or
\* done: no context, no DB object, no directory, no replica; the error is
\* "no replicas configured" (in "p584" the check of dbPath comes before it).
C23_NoReplicasRefusedFirst ==
    (NlReturned /\ nl.n = 0) =>
        /\ nl.ret = "nil" /\ N = 0
        /\ nl.ctx = "none" /\ ~nl.db.made
        /\ nl.mkdirs = <<>> /\ nl.rcs = <<>> /\ nl.replicas = <<>>
        /\ nl.err.kind = IF nl.version = "p584" /\ nl.dbPath = "" THEN "dbPath"
                         ELSE "noReplicas"

C23_Witness ==
    /\ NlReturned /\ nl.n = 0
    /\ nl.version = "p584"
    /\ nl.err.kind = "noReplicas"

\* C24: a replica spec of an unknown type makes the construction fail: no
\* client and no replica is made for it, no instance is returned, and the
\* error is the unsupported-type error with the name and type of that spec.
C24_UnknownTypeRefused ==
    \A i \in Read : UnknownType(nl.rcs[i]) =>
        /\ nl.ret = "nil" /\ N = 0
        /\ Len(nl.replicas) < i
        /\ nl.rcs[i].name # "" =>
            nl.err = [kind |-> "unsupportedType", name |-> nl.rcs[i].name,
                      type |-> nl.rcs[i].type]

C24_Witness ==
    /\ NlReturned
    /\ nl.err.kind = "unsupportedType" /\ nl.err.name = "b" /\ nl.err.type = "ftp"
    /\ Len(nl.replicas) = 1

\* C25: validation comes before all I/O: a Config with an invalid replica
\* spec at any position fails without os.MkdirAll having been called, for an
\* earlier file replica in particular.
C25_NoIOBeforeValidation ==
    (NlReturned /\ \E i \in Read :
        LacksMandatory(nl.rcs[i]) \/ UnknownType(nl.rcs[i]) \/ UnparsableTiming(nl.rcs[i])) =>
            nl.mkdirs = <<>>

\* C26: the replica specs are processed in the order of cfg.Replicas and the
\* first failing one ends the construction: the replicas made so far are
\* those of the specs before it, in order; no later spec is read; nothing
\* of the instance is opened or started; nil is returned with the error of
\* that spec. A construction that succeeds has read every spec.
C26_StopsAtFirstFailingSpec ==
    /\ Len(nl.rcs) <= nl.n
    /\ Len(nl.replicas) <= Len(nl.rcs)
    /\ \A i \in 1..Len(nl.replicas) : nl.replicas[i].name = nl.rcs[i].name
    /\ (NlReturned /\ nl.ret = "nil" /\ nl.rcs # <<>>) =>
        /\ Len(nl.replicas) = Len(nl.rcs) - 1
        /\ nl.err.kind # "none"
        /\ nl.err.name = nl.rcs[Len(nl.rcs)].name
        /\ nl.err.type = nl.rcs[Len(nl.rcs)].type
        /\ nl.ctx = "cancelled"
        /\ N = 0 /\ handle = "new" /\ openCalls = 0
        /\ \A s \in AllStarts : callerPc[s] = "idle"
    /\ nl.ret = "litestream" =>
        /\ Len(nl.rcs) = nl.n /\ Len(nl.replicas) = nl.n
        /\ N = nl.n
        /\ nl.err = NlNoErr

C26_Witness ==
    /\ NlReturned /\ nl.ret = "nil"
    /\ nl.n = 2 /\ Len(nl.rcs) = 2 /\ Len(nl.replicas) = 1
    /\ nl.replicas[1].name = nl.rcs[1].name

\* The value a timing setting of a replica has after construction.
C27_Expected(s, absent) ==
    CASE s = ""   -> absent
      [] s = "0"  -> [set |-> TRUE, secs |-> 0]
      [] s = "5s" -> [set |-> TRUE, secs |-> 5]

\* C27: the sync interval, snapshot interval and retention check interval of
\* a replica keep the engine's default when the spec leaves them empty and
\* take the parsed value otherwise; the retention is 0 when the spec leaves
\* it empty or says "0" and the parsed value otherwise; a setting that does
\* not parse makes the construction fail, with the error of that setting
\* unless making the directory of the spec failed before. (The ReplicaConfig of the later
\* version, part_006:824-840, has no timing settings.)
C27_TimingSettings ==
    nl.version = "p584" =>
    /\ \A i \in 1..Len(nl.replicas) :
        LET tm == nl.rcs[i].t
            r == nl.replicas[i]
        IN  /\ r.sync = C27_Expected(tm.sync, [set |-> FALSE, secs |-> 0])
            /\ r.snap = C27_Expected(tm.snap, [set |-> FALSE, secs |-> 0])
            /\ r.retcheck = C27_Expected(tm.retcheck, [set |-> FALSE, secs |-> 0])
            /\ r.ret = C27_Expected(tm.ret, [set |-> TRUE, secs |-> 0])
    /\ \A i \in Read : UnparsableTiming(nl.rcs[i]) =>
        /\ nl.ret = "nil" /\ N = 0
        /\ Len(nl.replicas) < i
        /\ nl.err.kind \in {"syncInterval", "snapshotInterval", "retention",
                            "retentionCheckInterval", "mkdir", "abs"}

C27_Witness ==
    /\ nl.version = "p584" /\ nl.ret = "litestream"
    /\ Len(nl.replicas) = 2
    /\ nl.rcs[1].t.sync = "5s" /\ nl.replicas[1].sync = [set |-> TRUE, secs |-> 5]
    /\ nl.rcs[1].t.ret = "" /\ nl.replicas[1].ret = [set |-> TRUE, secs |-> 0]
    /\ nl.rcs[2].t.ret = "5s" /\ nl.replicas[2].ret = [set |-> TRUE, secs |-> 5]
    /\ nl.replicas[2].snap = [set |-> FALSE, secs |-> 0]

\* C28: New returns an error and no instance, and nothing is made or
\* started, when the store fails, when the data is empty, when the format
\* is not "yaml", and when config.ParseConfig refuses the data, which it
\* does (README.md) for data with environment-variable syntax, in a comment
\* too.
C28_NewRefusesBadConfiguration ==
    LET g == nw.get
        refused == CASE g.err -> "load"
                     [] ~g.err /\ g.data = "" -> "empty"
                     [] ~g.err /\ g.data # "" /\ g.format # "yaml" -> "format"
                     [] ~g.err /\ g.format = "yaml"
                            /\ g.data \in {"malformed", "envValue", "envComment"} -> "parse"
                     [] OTHER -> "none"
    IN  /\ nw.pc \in {"setup", "returned"} /\ refused # "none" =>
            /\ nw.pc = "returned"
            /\ nw.ret = "nil" /\ nw.err = refused
            /\ ~nw.store /\ nw.ctx = "none" /\ ~nw.initLog /\ nw.dbcs = <<>>
            /\ N = 0 /\ handle = "new" /\ openCalls = 0
            /\ \A s \in AllStarts : callerPc[s] = "idle"
        /\ nw.ret = "litestream" => refused = "none" /\ nw.err = "none"
        /\ nw.ret = "nil" => nw.err # "none" /\ ~nw.store /\ N = 0

C28_Witness ==
    /\ nw.pc = "returned" /\ nw.ret = "nil"
    /\ nw.get.data = "envComment" /\ nw.get.format = "yaml"
    /\ nw.err = "parse"

----
\* The startup report (Spec).

\* C29: when a task fails to start, the supervisor calls l.cancel() before
\* it sends the error on the startup channel: whenever Start has returned a
\* task-start error, l.ctx is done.
C29_CancelledBeforeReport ==
    \A s \in Starts :
        (callerPc[s] = "returned" /\ startRet[s].kind = "task") => ctxCancelled

\* C30: the supervisor sends one value on the startup channel, not two, and
\* Start receives it: once Start has returned what its goroutine reported,
\* one value has been sent and the channel is empty.
C30_OneStartupValue ==
    \A s \in Starts :
        /\ sends[s] <= 1
        /\ (callerPc[s] = "returned" /\ svPc[s] # "none") =>
            sends[s] = 1 /\ chan[s] = <<>>

----
\* The source handle, the monitors and the calls of the host (Spec and the
\* specifications of a host that calls in another order).

\* C31: the handle is opened and closed by Start and its goroutine alone: no
\* Open begins while an Open or a Close is in progress, a Close begins only
\* when the Open has returned and no other Close is in progress, and no step
\* of a Stop call opens or closes the handle.
C31_HandleUsedBySupervisorOnly ==
    [][/\ openCalls' > openCalls =>
            /\ handle \notin {"opening", "closing"}
            /\ handle' = "opening"
       /\ closeCalls' > closeCalls =>
            /\ handle \in {"open", "openfailed"}
            /\ handle' = "closing"
       /\ stopVars' # stopVars => UNCHANGED <<handle, openOK, openCalls, closeCalls>>]_vars

C31_Witness ==
    /\ stopPc[1] = "select"
    /\ handle = "closing"
    /\ openCalls = 1 /\ closeCalls = 1

\* C32: the Start of litestream.go makes the directory monitors in the
\* order of l.watchables; when making the j-th fails, none is made after
\* it, l.ctx is cancelled before Start returns that error, and the teardown
\* closes the monitors 1..j-1, once each, and no other.
C32_MonitorStartFailure ==
    variant = "store" =>
        /\ \A k \in 1..N : startCalls[k] > 0 => \A i \in 1..(k - 1) : startCalls[i] = 1
        /\ \A j \in 1..N : tstate[j] = "startfailed" =>
            /\ \A k \in 1..N : startCalls[k] = IF k <= j THEN 1 ELSE 0
            /\ directoryMonitors = [i \in 1..(j - 1) |-> i]
            /\ callerPc[1] = "returned" => startRet[1] = TaskErr(j) /\ ctxCancelled
            /\ \A i \in 1..N : stopCalls[i] <= IF i < j THEN 1 ELSE 0
            /\ svPc[1] = "done" =>
                \A i \in 1..N : /\ stopCalls[i] = IF i < j THEN 1 ELSE 0
                                /\ i < j => tstate[i] = "stopped"

C32_Witness ==
    /\ variant = "store" /\ N = 2
    /\ tstate[2] = "startfailed"
    /\ startRet[1] = TaskErr(2)
    /\ svPc[1] = "done"
    /\ stopCalls[1] = 1 /\ stopCalls[2] = 0

\* C33: in the teardown of litestream.go every monitor that was made is
\* closed before store.Close is called, and the store is closed before
\* l.shutdownDone is, whichever way the goroutine ends.
C33_MonitorsThenStoreThenSignal ==
    variant = "store" =>
        /\ closeCalls > 0 =>
            /\ \A i \in started : tstate[i] = "stopped" /\ stopCalls[i] = 1
            /\ \A k \in 1..Len(directoryMonitors) : directoryMonitors[k] \in started
            /\ Len(directoryMonitors) = Cardinality(started)
        /\ shutdownDone => handle = "closed" /\ closeCalls = 1
        /\ svPc[1] = "done" => shutdownDone

C33_Witness ==
    /\ variant = "store" /\ N = 2
    /\ started = {1} /\ tstate[2] = "startfailed"
    /\ handle = "closing"
    /\ tstate[1] = "stopped"
    /\ ~shutdownDone

\* The goroutine of Start call s is past the start loop and its report.
PastStartup(s) ==
    svPc[s] \in {"wait", "defer", "stopping", "monitors", "monstopping", "closing", "done"}

C35_CompletedShutdownNeverTimesOut ==
    \A c \in Stoppers : c > 1 => stopRet[c] # "deadline"

\* C36: the teardown closes the DB / Store only if its Open returned nil:
\* after an Open that failed, Close is not called on it.
C36_CloseOnlyAfterSuccessfulOpen ==
    /\ closeCalls > 0 => openOK
    /\ handle \in {"closing", "closed"} => openOK

\* The goroutine of Start call s is running.
SupervisorRunning(s) == svPc[s] \notin {"none", "done"}

\* C37: however Start and Stop are called on an instance, a second Start
\* included, l.shutdownDone is closed at most once and at most one
\* supervisor goroutine runs at a time.
C37_OneCloseOneSupervisor ==
    /\ doneCloses <= 1
    /\ Cardinality({s \in AllStarts : SupervisorRunning(s)}) <= 1

\* C38: after Start has returned an error, l.shutdownDone is closed in the
\* end, so that a Stop waiting in its select returns nil unless the context
\* it was given ends first.
C38_StopAfterFailedStartReturnsNil ==
    \A c \in Stoppers :
        ((\E s \in Starts : StartFailed(s)) /\ stopPc[c] = "select")
            ~> (stopRet[c] = "nil" \/ deadline[c])

\* C39: a Stop called before Start does not return nil, it returns when the
\* context it was given ends; the Start called after it finds l.ctx
\* cancelled and, the Open and the task starts succeeding, returns nil; its
\* goroutine does not block in <-l.ctx.Done() but tears down and closes
\* l.shutdownDone, with no fairness assumed for any further Stop call.
C39_StartAfterStop ==
    /\ [](/\ stopRet[1] # "nil"
          /\ stopPc[1] = "returned" => stopRet[1] = "deadline" /\ deadline[1]
          /\ \A s \in Starts :
              /\ callerPc[s] # "idle" => ctxCancelled /\ stopPc[1] = "returned"
              /\ (callerPc[s] = "returned" /\ openOK /\ started = 1..N) => startRet[s] = NoErr
              /\ svPc[s] = "wait" => ENABLED SvCtxDone(s))
    /\ \A s \in Starts : (svPc[s] = "wait") ~> (shutdownDone /\ svPc[s] = "done")

C39_Witness ==
    /\ stopRet[1] = "deadline"
    /\ \A c \in Stoppers : c > 1 => stopPc[c] = "idle"
    /\ startRet[1] = NoErr /\ N >= 1 /\ started = 1..N
    /\ svPc[1] = "done" /\ shutdownDone
    /\ handle = "closed"

====
